---- MODULE Spec2Model ----
(***************************************************************************)
(* Model of src/app.py: the static analyser (analyze_code with its five    *)
(* detectors and two estimators) and the rewrite pass (auto_refactor).     *)
(*                                                                         *)
(* Syntax trees are records tagged by the field k (the ast class name).    *)
(* Source text is modelled by what the parser reads from it: the statement *)
(* syntax without positions, plus a defect marker for text the parser      *)
(* rejects.  ast.parse attaches line numbers (Locate) and checks the       *)
(* grammar; ast.unparse drops the positions again (Strip).                 *)
(***************************************************************************)
EXTENDS Integers, Sequences, FiniteSets, TLC

VARIABLES code_str, op, pc, module, i, new_body, code_out, raised, result,
          pass, first_out

vars == <<code_str, op, pc, module, i, new_body, code_out, raised, result,
          pass, first_out>>

\* ------------------------------------------------------------ bounds
\* top-level statements of a rewrite input drawn from the whole RewritePool
MaxLen == 2
\* top-level statements of a rewrite input drawn from the CorePool
MaxCore == 4
\* top-level statements of an analysis input
MaxMix == 2
\* depth of the generated loop nests
MaxNest == 3

\* ------------------------------------------------------------ helpers
RECURSIVE Cat(_)
Cat(ss) == IF ss = <<>> THEN <<>> ELSE Head(ss) \o Cat(Tail(ss))

Max2(a, b) == IF a >= b THEN a ELSE b

SeqsUpTo(S, n) == UNION {[1..m -> S] : m \in 0..n}

\* ------------------------------------------------------------ syntax trees
\* a node as its constructor leaves it: lineno 0 stands for "no position yet"
Name(id) == [k |-> "Name", id |-> id, lineno |-> 0]
Constant(c) == [k |-> "Constant", const |-> c, lineno |-> 0]
Attribute(value, attr) ==
    [k |-> "Attribute", value |-> value, attr |-> attr, lineno |-> 0]
Call(func, args) == [k |-> "Call", func |-> func, args |-> args, lineno |-> 0]
Starred(value) == [k |-> "Starred", value |-> value, lineno |-> 0]
List(elts) == [k |-> "List", elts |-> elts, lineno |-> 0]
Compare(left, ops, comparators) ==
    [k |-> "Compare", left |-> left, ops |-> ops, comparators |-> comparators,
     lineno |-> 0]
comprehension(target, iter) ==
    [k |-> "comprehension", target |-> target, iter |-> iter, ifs |-> <<>>,
     lineno |-> 0]
ListComp(elt, generators) ==
    [k |-> "ListComp", elt |-> elt, generators |-> generators, lineno |-> 0]

Assign(targets, value) ==
    [k |-> "Assign", targets |-> targets, value |-> value, lineno |-> 0]
AugAssign(target, o, value) ==
    [k |-> "AugAssign", target |-> target, op |-> o, value |-> value, lineno |-> 0]
Expr(value) == [k |-> "Expr", value |-> value, lineno |-> 0]
For(target, iter, body, orelse) ==
    [k |-> "For", target |-> target, iter |-> iter, body |-> body,
     orelse |-> orelse, lineno |-> 0]
While(test, body, orelse) ==
    [k |-> "While", test |-> test, body |-> body, orelse |-> orelse, lineno |-> 0]
If(test, body, orelse) ==
    [k |-> "If", test |-> test, body |-> body, orelse |-> orelse, lineno |-> 0]
FunctionDef(name, body, decorator_list) ==
    [k |-> "FunctionDef", name |-> name, body |-> body,
     decorator_list |-> decorator_list, lineno |-> 0]
Module(body) == [k |-> "Module", body |-> body, lineno |-> 0]

\* fields holding one child node (the others of FieldOrder hold a list of them)
NodeFields == {"value", "func", "elt", "left", "test", "target", "iter"}

\* the child-bearing fields of each node class, in the class's field order
FieldOrder(kind) ==
    CASE kind = "Module" -> <<"body">>
      [] kind = "FunctionDef" -> <<"body", "decorator_list">>
      [] kind = "For" -> <<"target", "iter", "body", "orelse">>
      [] kind \in {"While", "If"} -> <<"test", "body", "orelse">>
      [] kind = "Assign" -> <<"targets", "value">>
      [] kind = "AugAssign" -> <<"target", "value">>
      [] kind \in {"Expr", "Attribute", "Starred"} -> <<"value">>
      [] kind = "Call" -> <<"func", "args">>
      [] kind = "Compare" -> <<"left", "comparators">>
      [] kind = "List" -> <<"elts">>
      [] kind = "ListComp" -> <<"elt", "generators">>
      [] kind = "comprehension" -> <<"target", "iter", "ifs">>
      [] OTHER -> <<>>

\* ast.iter_child_nodes
RECURSIVE FieldChildren(_, _)
FieldChildren(n, fs) ==
    IF fs = <<>> THEN <<>>
    ELSE (IF Head(fs) \in NodeFields THEN <<n[Head(fs)]>> ELSE n[Head(fs)])
         \o FieldChildren(n, Tail(fs))

iter_child_nodes(n) == FieldChildren(n, FieldOrder(n.k))

\* ast.NodeVisitor: the nodes in the order visit() reaches them when every
\* handler ends with generic_visit (a node, then its children in field order)
RECURSIVE generic_visit(_), VisitEach(_)
generic_visit(n) == <<n>> \o VisitEach(iter_child_nodes(n))
VisitEach(ns) ==
    IF ns = <<>> THEN <<>> ELSE generic_visit(Head(ns)) \o VisitEach(Tail(ns))

\* ------------------------------------------------------------ parser / printer
\* put line number `line` on a node and on everything below it
RECURSIVE SetLine(_, _), SetLineFields(_, _, _), SetLineEach(_, _)
SetLine(n, line) == SetLineFields([n EXCEPT !.lineno = line], FieldOrder(n.k), line)
SetLineFields(n, fs, line) ==
    IF fs = <<>> THEN n
    ELSE LET f == Head(fs)
             v == IF f \in NodeFields THEN SetLine(n[f], line)
                  ELSE SetLineEach(n[f], line)
         IN SetLineFields([n EXCEPT ![f] = v], Tail(fs), line)
SetLineEach(ns, line) ==
    IF ns = <<>> THEN <<>>
    ELSE <<SetLine(Head(ns), line)>> \o SetLineEach(Tail(ns), line)

\* text lines a statement occupies, one statement per line, "else:" on its own
RECURSIVE Lines(_), LinesAll(_)
Lines(s) ==
    CASE s.k \in {"For", "While", "If"} ->
            1 + LinesAll(s.body)
              + (IF s.orelse = <<>> THEN 0 ELSE 1 + LinesAll(s.orelse))
      [] s.k = "FunctionDef" -> Len(s.decorator_list) + 1 + LinesAll(s.body)
      [] OTHER -> 1
LinesAll(ss) == IF ss = <<>> THEN 0 ELSE Lines(Head(ss)) + LinesAll(Tail(ss))

\* the decorators of a function, one per line from `line`
RECURSIVE LocDecorators(_, _)
LocDecorators(ds, line) ==
    IF ds = <<>> THEN <<>>
    ELSE <<SetLine(Head(ds), line)>> \o LocDecorators(Tail(ds), line + 1)

\* the statement whose text starts at `line`, with the positions the parser
\* gives it: a function is at its def line, below its decorators
RECURSIVE LocS(_, _), LocSeq(_, _)
LocS(s, line) ==
    CASE s.k = "For" ->
            [s EXCEPT !.lineno = line,
                      !.target = SetLine(s.target, line),
                      !.iter = SetLine(s.iter, line),
                      !.body = LocSeq(s.body, line + 1),
                      !.orelse = LocSeq(s.orelse, line + LinesAll(s.body) + 2)]
      [] s.k \in {"While", "If"} ->
            [s EXCEPT !.lineno = line,
                      !.test = SetLine(s.test, line),
                      !.body = LocSeq(s.body, line + 1),
                      !.orelse = LocSeq(s.orelse, line + LinesAll(s.body) + 2)]
      [] s.k = "FunctionDef" ->
            [s EXCEPT !.lineno = line + Len(s.decorator_list),
                      !.decorator_list = LocDecorators(s.decorator_list, line),
                      !.body = LocSeq(s.body, line + Len(s.decorator_list) + 1)]
      [] OTHER -> SetLine(s, line)
LocSeq(ss, line) ==
    IF ss = <<>> THEN <<>>
    ELSE <<LocS(Head(ss), line)>> \o LocSeq(Tail(ss), line + Lines(Head(ss)))

\* the grammar rejects iterable unpacking as the element of a comprehension
Grammatical(stmts) ==
    LET nodes == generic_visit(Module(stmts))
    IN \A j \in DOMAIN nodes :
          nodes[j].k = "ListComp" => nodes[j].elt.k # "Starred"

\* ast.parse: a positioned Module, or the exception it raises
ast_parse(text) ==
    CASE text.defect = "syntax" ->
            [exc |-> "SyntaxError", msg |-> "invalid syntax"]
      [] text.defect = "depth" ->
            [exc |-> "RecursionError",
             msg |-> "maximum recursion depth exceeded during ast construction"]
      [] text.defect = "none" /\ ~Grammatical(text.stmts) ->
            [exc |-> "SyntaxError",
             msg |-> "iterable unpacking cannot be used in comprehension"]
      [] OTHER -> [exc |-> "none", tree |-> Module(LocSeq(text.stmts, 1))]

\* the text of a tree carries no positions
Strip(n) == SetLine(n, 0)

\* safe_unparse: the text of a module
safe_unparse(node) ==
    [stmts |-> SetLineEach(node.body, 0), defect |-> "none"]

\* ------------------------------------------------------------ loop nesting
\* a variant of IsLoop that forgets while-loops
IsLoopForOnly(n) == n.k = "For"

\* line 27: isinstance(n, (ast.For, ast.While))
IsLoop(n) == n.k \in {"For", "While"}

\* max_loop_nesting.visit: the largest value the nonlocal max_depth is raised
\* to while n and everything below it are visited at the given depth (0 when
\* it is never raised)
RECURSIVE visit(_, _), visit_children(_, _)
visit(n, depth) ==
    IF IsLoop(n)
    THEN Max2(depth + 1, visit_children(iter_child_nodes(n), depth + 1))
    ELSE visit_children(iter_child_nodes(n), depth)
visit_children(cs, depth) ==
    IF cs = <<>> THEN 0
    ELSE Max2(visit(Head(cs), depth), visit_children(Tail(cs), depth))

max_loop_nesting(node) == visit(node, 0)

\* ------------------------------------------------------------ detectors
\* what a detector's handler appends for one node
concat_visit_AugAssign(node) ==
    IF node.k = "AugAssign" /\ node.op = "Add" /\ node.target.k = "Name"
    THEN << <<node.lineno, node.target.id>> >>
    ELSE <<>>

append_visit_Call(node) ==
    IF /\ node.k = "Call"
       /\ node.func.k = "Attribute"
       /\ node.func.attr = "append"
       /\ node.func.value.k = "Name"
    THEN << <<node.lineno, node.func.value.id>> >>
    ELSE <<>>

range_len_visit_For(node) ==
    IF /\ node.k = "For"
       /\ node.iter.k = "Call"
       /\ node.iter.func.k = "Name"
       /\ node.iter.func.id = "range"
       /\ node.iter.args # <<>>
       /\ node.iter.args[1].k = "Call"
       /\ node.iter.args[1].func.k = "Name"
       /\ node.iter.args[1].func.id = "len"
       /\ node.iter.args[1].args # <<>>
       /\ node.iter.args[1].args[1].k = "Name"
    THEN << <<node.lineno, node.iter.args[1].args[1].id>> >>
    ELSE <<>>

sorted_visit_Call(node) ==
    IF node.k # "Call" THEN <<>>
    ELSE (IF node.func.k = "Name" /\ node.func.id = "sorted"
          THEN <<node.lineno>> ELSE <<>>)
         \o (IF node.func.k = "Attribute" /\ node.func.attr = "sort"
             THEN <<node.lineno>> ELSE <<>>)

membership_visit_Compare(node) ==
    IF node.k # "Compare" THEN <<>>
    ELSE Cat([j \in DOMAIN node.ops |->
                IF /\ node.ops[j] = "In"
                   /\ node.comparators # <<>>
                   /\ node.comparators[1].k = "Name"
                THEN << <<node.lineno, node.comparators[1].id>> >>
                ELSE <<>>])

listcomp_visit(node) == IF node.k = "ListComp" THEN <<1>> ELSE <<>>

find_string_concat_in_loops(m) ==
    LET nodes == generic_visit(m)
    IN Cat([j \in DOMAIN nodes |-> concat_visit_AugAssign(nodes[j])])

find_list_append_patterns(m) ==
    LET nodes == generic_visit(m)
    IN Cat([j \in DOMAIN nodes |-> append_visit_Call(nodes[j])])

find_range_len_patterns(m) ==
    LET nodes == generic_visit(m)
    IN Cat([j \in DOMAIN nodes |-> range_len_visit_For(nodes[j])])

find_sorted_in_loops(m) ==
    LET nodes == generic_visit(m)
    IN Cat([j \in DOMAIN nodes |-> sorted_visit_Call(nodes[j])])

detect_membership_of_list_in_loops(m) ==
    LET nodes == generic_visit(m)
    IN Cat([j \in DOMAIN nodes |-> membership_visit_Compare(nodes[j])])

\* ------------------------------------------------------------ estimators
\* strings are sequences of fragments; a number prints as its decimal digits
Digits == <<"0", "1", "2", "3", "4", "5", "6", "7", "8", "9">>

RECURSIVE IntStr(_)
IntStr(n) ==
    IF n < 10 THEN <<Digits[n + 1]>>
    ELSE IntStr(n \div 10) \o <<Digits[(n % 10) + 1]>>

RECURSIVE ListStr(_)
ListStr(ns) ==
    IF ns = <<>> THEN <<>>
    ELSE IntStr(Head(ns)) \o (IF Tail(ns) = <<>> THEN <<>> ELSE <<", ">>)
         \o ListStr(Tail(ns))

estimate_time_complexity(m) ==
    LET max_loops == max_loop_nesting(m)
        sort_lines == find_sorted_in_loops(m)
        time_est ==
            IF max_loops = 0 THEN <<"O(n) or O(1)", " (no loops detected)">>
            ELSE IF max_loops = 1 THEN <<"Heuristic: ", "O(n)", " (one loop).">>
            ELSE <<"Heuristic: ", "O(n^">> \o IntStr(max_loops) \o <<")">>
                 \o <<" (max loop nesting=">> \o IntStr(max_loops) \o <<")">>
        note ==
            IF sort_lines # <<>>
            THEN <<" Sorting detected at lines ", "[">> \o ListStr(sort_lines)
                 \o <<"]", " (O(n log n)).">>
            ELSE <<>>
    IN [est |-> time_est \o note,
        details |-> [max_loop_nesting |-> max_loops, sort_calls |-> sort_lines]]

estimate_space_complexity(m) ==
    LET appends == find_list_append_patterns(m)
        nodes == generic_visit(m)
        comp_count == Len(Cat([j \in DOMAIN nodes |-> listcomp_visit(nodes[j])]))
        space_est ==
            IF comp_count > 0 \/ appends # <<>>
            THEN <<"Heuristic: ", "O(n)", " (building new containers).">>
            ELSE <<"Heuristic: ", "O(1)", " (no major containers built).">>
    IN [est |-> space_est,
        details |-> [list_comprehensions |-> comp_count, list_appends |-> appends]]

\* ------------------------------------------------------------ analyzer
ConcatDetections(m) ==
    LET r == find_string_concat_in_loops(m)
    IN [j \in DOMAIN r |->
          [type |-> "string_concat_in_loop", lineno |-> r[j][1], variable |-> r[j][2],
           suggestion |-> "Use ''.join(...) instead of += in a loop."]]

AppendDetections(m) ==
    LET r == find_list_append_patterns(m)
    IN [j \in DOMAIN r |->
          [type |-> "list_append", lineno |-> r[j][1], list_name |-> r[j][2],
           suggestion |->
             "Consider using a list comprehension instead of append in loop."]]

RangeLenDetections(m) ==
    LET r == find_range_len_patterns(m)
    IN [j \in DOMAIN r |->
          [type |-> "range_len", lineno |-> r[j][1], sequence |-> r[j][2],
           suggestion |-> "Use enumerate() instead of range(len(...))."]]

MembershipDetections(m) ==
    LET r == detect_membership_of_list_in_loops(m)
    IN [j \in DOMAIN r |->
          [type |-> "membership_test", lineno |-> r[j][1], container |-> r[j][2],
           suggestion |-> "Convert list to set for faster membership tests."]]

SortDetections(m) ==
    LET r == find_sorted_in_loops(m)
    IN [j \in DOMAIN r |->
          [type |-> "sort_in_loop", lineno |-> r[j],
           suggestion |->
             "Move sorting outside loop to avoid O(n log n) each iteration."]]

\* a variant of Detections that runs the membership loop before the range-len loop
DetectionsSwapped(m) ==
    ConcatDetections(m) \o AppendDetections(m) \o MembershipDetections(m)
    \o RangeLenDetections(m) \o SortDetections(m)

\* lines 162-199: the five loops of analyze_code, in their order
Detections(m) ==
    ConcatDetections(m) \o AppendDetections(m) \o RangeLenDetections(m)
    \o MembershipDetections(m) \o SortDetections(m)

\* the exception types the try block of analyze_code catches
AnalyzeCaught == {"SyntaxError"}

\* a variant of analyze_code that creates the result dictionary before parsing
analyze_code_early(text) ==
    LET p == ast_parse(text)
    IN IF p.exc \in AnalyzeCaught
       THEN [exc |-> "none",
             value |-> [ok |-> FALSE, detections |-> <<>>, parse_error |-> p.msg]]
       ELSE IF p.exc # "none" THEN [exc |-> p.exc]
       ELSE LET t == estimate_time_complexity(p.tree)
                sp == estimate_space_complexity(p.tree)
            IN [exc |-> "none",
                value |-> [ok |-> TRUE,
                           detections |-> Detections(p.tree),
                           time_estimate |-> t.est,
                           time_details |-> t.details,
                           space_estimate |-> sp.est,
                           space_details |-> sp.details]]

\* analyze_code: the returned dictionary, or the exception that escapes
analyze_code(text) ==
    LET p == ast_parse(text)
    IN IF p.exc \in AnalyzeCaught
       THEN [exc |-> "none", value |-> [ok |-> FALSE, parse_error |-> p.msg]]
       ELSE IF p.exc # "none" THEN [exc |-> p.exc]
       ELSE LET t == estimate_time_complexity(p.tree)
                sp == estimate_space_complexity(p.tree)
            IN [exc |-> "none",
                value |-> [ok |-> TRUE,
                           detections |-> Detections(p.tree),
                           time_estimate |-> t.est,
                           time_details |-> t.details,
                           space_estimate |-> sp.est,
                           space_details |-> sp.details]]

\* ------------------------------------------------------------ transformer
\* visit_Module, lines 214-218: cur is a single-target assignment to a bare name
AssignsToName(cur) ==
    /\ cur.k = "Assign"
    /\ Len(cur.targets) = 1
    /\ cur.targets[1].k = "Name"

\* lines 220-222: an empty list literal, and the next statement is a for-loop
\* (body is 1-indexed here: body[idx + 1] is node.body[idx])
EmptyListThenFor(body, idx) ==
    /\ body[idx + 1].value.k = "List"
    /\ body[idx + 1].value.elts = <<>>
    /\ idx + 1 < Len(body)
    /\ body[idx + 2].k = "For"

\* lines 224-228: the loop body is one expression statement holding a call
SingleCallBody(fnode) ==
    /\ Len(fnode.body) = 1
    /\ fnode.body[1].k = "Expr"
    /\ fnode.body[1].value.k = "Call"

\* lines 230-235: the call is varname.append(...)
AppendsTo(call, varname) ==
    /\ call.func.k = "Attribute"
    /\ call.func.attr = "append"
    /\ call.func.value.k = "Name"
    /\ call.func.value.id = varname

\* every condition guarding line 236 holds at cursor idx
Matches(body, idx) ==
    /\ AssignsToName(body[idx + 1])
    /\ EmptyListThenFor(body, idx)
    /\ SingleCallBody(body[idx + 2])
    /\ AppendsTo(body[idx + 2].body[1].value, body[idx + 1].targets[1].id)

\* lines 236-241: the statement built from the pair at cursor idx; the new
\* nodes carry no position yet
Comprehension(body, idx) ==
    LET varname == body[idx + 1].targets[1].id
        fnode == body[idx + 2]
        call == fnode.body[1].value
        elt == call.args[1]
        comp == ListComp(elt, <<comprehension(fnode.target, fnode.iter)>>)
    IN Assign(<<Name(varname)>>, comp)

\* a variant of Kept that also rewrites an idiom opening a nested block
KeptDescending(cur) ==
    IF /\ cur.k \in {"If", "For", "While", "FunctionDef"}
       /\ Len(cur.body) >= 2
       /\ Matches(cur.body, 0)
       /\ cur.body[2].body[1].value.args # <<>>
    THEN [cur EXCEPT !.body = <<Comprehension(cur.body, 0)>> \o SubSeq(cur.body, 3, Len(cur.body))]
    ELSE cur

\* line 245: cur goes to the new body as it is (visit_Module never descends)
Kept(cur) == cur

\* ast.fix_missing_locations: a node without a position takes its parent's
RECURSIVE fix_missing_locations(_, _), FixFields(_, _, _), FixEach(_, _)
fix_missing_locations(n, parent_line) ==
    LET line == IF n.lineno = 0 THEN parent_line ELSE n.lineno
    IN FixFields([n EXCEPT !.lineno = line], FieldOrder(n.k), line)
FixFields(n, fs, line) ==
    IF fs = <<>> THEN n
    ELSE LET f == Head(fs)
             v == IF f \in NodeFields THEN fix_missing_locations(n[f], line)
                  ELSE FixEach(n[f], line)
         IN FixFields([n EXCEPT ![f] = v], Tail(fs), line)
FixEach(ns, line) ==
    IF ns = <<>> THEN <<>>
    ELSE <<fix_missing_locations(Head(ns), line)>> \o FixEach(Tail(ns), line)

\* black's format_str, when installed: it fails on text it cannot parse
BlackOutcomes(text) ==
    IF Grammatical(text.stmts) THEN {"absent", "ok", "error"} ELSE {"absent", "error"}

\* lines 253-257: the formatter changes the layout only, and the text model
\* has no layout; its failure is swallowed
format(text, outcome) == text

\* ------------------------------------------------------------ inputs
X == Name("x")
Xs == Name("xs")
R == Name("r")

Method(obj, attr, args) == Call(Attribute(Name(obj), attr), args)
ForX(body, orelse) == For(X, Xs, body, orelse)
ShowX == Expr(Call(Name("print"), <<X>>))

\* the canonical idiom: R = [] followed by a loop appending f(X)
EmptyR == Assign(<<R>>, List(<<>>))
AppendLoop == ForX(<<Expr(Method("r", "append", <<Call(Name("f"), <<X>>)>>))>>, <<>>)

NoArgLoop == ForX(<<Expr(Method("r", "append", <<>>))>>, <<>>)
TwoArgLoop == ForX(<<Expr(Method("r", "append", <<X, Name("y")>>))>>, <<>>)
StarLoop == ForX(<<Expr(Method("r", "append", <<Starred(Name("a"))>>))>>, <<>>)
ElseLoop == ForX(<<Expr(Method("r", "append", <<X>>))>>, <<ShowX>>)

NestedIf == If(Name("c"), <<EmptyR, AppendLoop>>, <<>>)

RewritePool ==
    { EmptyR,
      Assign(<<R>>, List(<<X>>)),
      Assign(<<R, Name("s")>>, List(<<>>)),
      Assign(<<Attribute(Name("o"), "r")>>, List(<<>>)),
      AppendLoop,
      NoArgLoop,
      TwoArgLoop,
      StarLoop,
      ElseLoop,
      ForX(<<Expr(Method("s", "append", <<X>>))>>, <<>>),
      ForX(<<Expr(Method("r", "extend", <<X>>))>>, <<>>),
      ForX(<<Expr(Call(Name("f"), <<X>>))>>, <<>>),
      ForX(<<Expr(Method("r", "append", <<X>>)), ShowX>>, <<>>),
      While(Name("t"), <<Expr(Method("r", "append", <<X>>))>>, <<>>),
      NestedIf,
      FunctionDef("g", <<EmptyR, AppendLoop>>, <<>>),
      For(Name("y"), Name("ys"), <<EmptyR, AppendLoop>>, <<>>) }

CorePool == {EmptyR, AppendLoop, NoArgLoop, NestedIf}

\* loops nested inside one another, outermost kind first
RECURSIVE LoopNest(_)
LoopNest(kinds) ==
    LET inner == IF Len(kinds) = 1 THEN <<ShowX>> ELSE <<LoopNest(Tail(kinds))>>
    IN IF Head(kinds) = "For" THEN ForX(inner, <<>>)
       ELSE While(Name("t"), inner, <<>>)

Alternating(first, n) ==
    [j \in 1..n |-> IF (j % 2 = 1) = (first = "For") THEN "For" ELSE "While"]

LoopNests == {LoopNest(Alternating(first, n)) : first \in {"For", "While"}, n \in 1..MaxNest}

In(left, right) == Compare(left, <<"In">>, <<right>>)

AnalysisPool ==
    LoopNests \cup
    { ForX(<<ShowX>>, <<While(Name("t"), <<ShowX>>, <<>>)>>),
      ForX(<<If(Name("c"), <<While(Name("t"), <<ShowX>>, <<>>)>>, <<>>)>>, <<>>),
      Expr(In(X, R)),
      Expr(In(X, Call(Name("f"), <<X>>))),
      Expr(Compare(Name("a"), <<"Lt">>, <<Name("b")>>)),
      Expr(Compare(Name("a"), <<"Lt", "In">>, <<Name("b"), Name("c")>>)),
      Expr(Compare(Name("a"), <<"In", "In">>, <<Name("b"), Name("c")>>)),
      Expr(Call(Name("sorted"), <<Xs>>)),
      Expr(Method("xs", "sort", <<>>)),
      AugAssign(Name("s"), "Add", X),
      AugAssign(Name("s"), "Sub", X),
      AugAssign(Attribute(Name("o"), "s"), "Add", X),
      For(Name("i"), Call(Name("range"), <<Call(Name("len"), <<Name("arr")>>)>>),
          <<ShowX>>, <<>>),
      For(Name("i"), Call(Name("range"), <<Call(Name("len"), <<Call(Name("f"), <<X>>)>>)>>),
          <<ShowX>>, <<>>),
      For(Name("i"), Call(Name("range"), <<Name("n")>>), <<ShowX>>, <<>>),
      FunctionDef("g", <<Expr(Method("r", "append", <<X>>))>>,
                  <<Method("d", "append", <<X>>)>>),
      Assign(<<R>>, ListComp(X, <<comprehension(X, Xs)>>)),
      Expr(Method("r", "append", <<Method("s", "append", <<X>>)>>)) }

UserText(stmts) == [stmts |-> stmts, defect |-> "none"]

\* text the parser rejects, and text too deeply nested for it
BrokenTexts == {[stmts |-> <<>>, defect |-> d] : d \in {"syntax", "depth"}}

RewriteInputs ==
    {UserText(ss) : ss \in SeqsUpTo(RewritePool, MaxLen)}
    \cup {UserText(ss) : ss \in SeqsUpTo(CorePool, MaxCore)}
    \cup BrokenTexts

AnalysisInputs ==
    {UserText(ss) : ss \in SeqsUpTo(AnalysisPool, MaxMix)} \cup BrokenTexts

\* ------------------------------------------------------------ state machine
NoText == [stmts |-> <<>>, defect |-> "unset"]
NoResult == [none |-> TRUE]

Start ==
    /\ op = "none"
    /\ pc = "idle"
    /\ module = Module(<<>>)
    /\ i = 0
    /\ new_body = <<>>
    /\ code_out = NoText
    /\ raised = "none"
    /\ result = NoResult
    /\ pass = 1
    /\ first_out = NoText

Init == code_str \in RewriteInputs /\ Start

InitAnalyze == code_str \in AnalysisInputs /\ Start

\* analyze_code returns its dictionary
AnalyzeReturn ==
    /\ pc = "idle" /\ pass = 1
    /\ analyze_code(code_str).exc = "none"
    /\ op' = "analyze"
    /\ result' = analyze_code(code_str).value
    /\ pc' = "returned"
    /\ UNCHANGED <<code_str, module, i, new_body, code_out, raised, pass, first_out>>

\* an exception leaves analyze_code
AnalyzeRaise ==
    /\ pc = "idle" /\ pass = 1
    /\ analyze_code(code_str).exc # "none"
    /\ op' = "analyze"
    /\ raised' = analyze_code(code_str).exc
    /\ pc' = "raised"
    /\ UNCHANGED <<code_str, module, i, new_body, code_out, result, pass, first_out>>

\* auto_refactor, line 206: the text parses; visit_Module starts
RefactorParse ==
    /\ pc = "idle"
    /\ ast_parse(code_str).exc = "none"
    /\ op' = "refactor"
    /\ module' = ast_parse(code_str).tree
    /\ i' = 0
    /\ new_body' = <<>>
    /\ pc' = "scan"
    /\ UNCHANGED <<code_str, code_out, raised, result, pass, first_out>>

\* auto_refactor, line 206: the parser's exception propagates
RefactorParseRaise ==
    /\ pc = "idle"
    /\ ast_parse(code_str).exc # "none"
    /\ op' = "refactor"
    /\ raised' = ast_parse(code_str).exc
    /\ pc' = "raised"
    /\ UNCHANGED <<code_str, module, i, new_body, code_out, result, pass, first_out>>

\* one turn of the while loop, lines 236-244: the pair becomes one statement
VisitReplace ==
    /\ pc = "scan" /\ i < Len(module.body)
    /\ Matches(module.body, i)
    /\ module.body[i + 2].body[1].value.args # <<>>
    /\ new_body' = Append(new_body, Comprehension(module.body, i))
    /\ i' = i + 2
    /\ UNCHANGED <<code_str, op, pc, module, code_out, raised, result, pass, first_out>>

\* one turn of the while loop, line 236: call.args[0] of an empty argument list
VisitIndexError ==
    /\ pc = "scan" /\ i < Len(module.body)
    /\ Matches(module.body, i)
    /\ module.body[i + 2].body[1].value.args = <<>>
    /\ raised' = "IndexError"
    /\ pc' = "raised"
    /\ UNCHANGED <<code_str, op, module, i, new_body, code_out, result, pass, first_out>>

\* one turn of the while loop, lines 245-246: cur is kept
VisitKeep ==
    /\ pc = "scan" /\ i < Len(module.body)
    /\ ~Matches(module.body, i)
    /\ new_body' = Append(new_body, Kept(module.body[i + 1]))
    /\ i' = i + 1
    /\ UNCHANGED <<code_str, op, pc, module, code_out, raised, result, pass, first_out>>

\* lines 247-258: the new body replaces the old, and the tree is printed
RefactorReturn ==
    /\ pc = "scan" /\ i >= Len(module.body)
    /\ LET new_module == fix_missing_locations([module EXCEPT !.body = new_body], 1)
           text == safe_unparse(new_module)
       IN /\ module' = new_module
          /\ \E outcome \in BlackOutcomes(text) : code_out' = format(text, outcome)
    /\ pc' = "returned"
    /\ UNCHANGED <<code_str, op, i, new_body, raised, result, pass, first_out>>

\* the rewritten text is submitted to auto_refactor again
Resubmit ==
    /\ pc = "returned" /\ op = "refactor" /\ pass = 1
    /\ code_str' = code_out
    /\ first_out' = code_out
    /\ pass' = 2
    /\ pc' = "idle"
    /\ op' = "none"
    /\ code_out' = NoText
    /\ module' = Module(<<>>)
    /\ i' = 0
    /\ new_body' = <<>>
    /\ UNCHANGED <<raised, result>>

Next ==
    \/ AnalyzeReturn
    \/ AnalyzeRaise
    \/ RefactorParse
    \/ RefactorParseRaise
    \/ VisitReplace
    \/ VisitIndexError
    \/ VisitKeep
    \/ RefactorReturn
    \/ Resubmit

Spec == Init /\ [][Next]_vars

NextAnalyze ==
    \/ AnalyzeReturn
    \/ AnalyzeRaise

SpecAnalyze == InitAnalyze /\ [][NextAnalyze]_vars

\* ============================================================ claims
ParsesOk == ast_parse(code_str).exc = "none"
RefactorReturned == op = "refactor" /\ pc = "returned"
AnalyzeReturned == op = "analyze" /\ pc = "returned"
ScanStep == pc = "scan" /\ i < Len(module.body)

Contains(s, sub) ==
    \E o \in 1..(Len(s) - Len(sub) + 1) : SubSeq(s, o, o + Len(sub) - 1) = sub

\* ------------------------------------------------------------ C1
\* the pattern as the claim words it: V = [] followed by a for-loop whose whole
\* body is the one statement V.append(E), E a single argument
ClaimPattern(body, idx) ==
    /\ body[idx + 1].k = "Assign"
    /\ Len(body[idx + 1].targets) = 1
    /\ body[idx + 1].targets[1].k = "Name"
    /\ body[idx + 1].value.k = "List"
    /\ body[idx + 1].value.elts = <<>>
    /\ idx + 2 <= Len(body)
    /\ body[idx + 2].k = "For"
    /\ Len(body[idx + 2].body) = 1
    /\ body[idx + 2].body[1].k = "Expr"
    /\ body[idx + 2].body[1].value.k = "Call"
    /\ body[idx + 2].body[1].value.func.k = "Attribute"
    /\ body[idx + 2].body[1].value.func.attr = "append"
    /\ body[idx + 2].body[1].value.func.value.k = "Name"
    /\ body[idx + 2].body[1].value.func.value.id = body[idx + 1].targets[1].id
    /\ Len(body[idx + 2].body[1].value.args) = 1

\* V = [E for T in I], as text
ClaimStatement(body, idx) ==
    Strip(Assign(<<Name(body[idx + 1].targets[1].id)>>,
                 ListComp(body[idx + 2].body[1].value.args[1],
                          <<comprehension(body[idx + 2].target, body[idx + 2].iter)>>)))

\* C1: at every cursor position the scan replaces statements i and i+1 by
\* V = [E for T in I] and advances by two exactly when the pair has the
\* claimed shape, and otherwise emits statement i unchanged and advances by one.
C1_CursorStep ==
    [][ScanStep =>
          IF ClaimPattern(module.body, i)
          THEN /\ i' = i + 2
               /\ Len(new_body') = Len(new_body) + 1
               /\ SubSeq(new_body', 1, Len(new_body)) = new_body
               /\ Strip(new_body'[Len(new_body')]) = ClaimStatement(module.body, i)
          ELSE /\ i' = i + 1
               /\ new_body' = Append(new_body, module.body[i + 1])]_vars

\* ------------------------------------------------------------ C2
\* C2: an exception leaves auto_refactor only when the parser failed on the
\* input; every input that parses is rewritten.
C2_OnlyParseFailures == (op = "refactor" /\ pc = "raised") => ~ParsesOk

\* ------------------------------------------------------------ C3
\* C3: on text the parser rejects as invalid syntax, analyze_code returns
\* exactly {ok: False, parse_error: <non-empty message>} and auto_refactor
\* raises without producing any output text.
C3_ParseFailureIsolation ==
    ast_parse(code_str).exc = "SyntaxError" =>
        /\ op = "analyze" =>
              /\ pc = "returned"
              /\ DOMAIN result = {"ok", "parse_error"}
              /\ result.ok = FALSE
              /\ result.parse_error # ""
        /\ op = "refactor" =>
              /\ pc = "raised"
              /\ raised = "SyntaxError"
              /\ code_out = NoText

C3_Witness ==
    /\ ast_parse(code_str).exc = "SyntaxError"
    /\ AnalyzeReturned
    /\ result.ok = FALSE

\* ------------------------------------------------------------ C4
\* C4: analyze_code returns for every input: a failure of the parser becomes
\* the {ok: False, parse_error} report, and an input that parses gets a report
\* with a time and a space classification.
C4_NothingEscapes ==
    op = "analyze" =>
        /\ pc = "returned"
        /\ IF ParsesOk
           THEN /\ result.ok
                /\ {"time_estimate", "space_estimate"} \subseteq DOMAIN result
           ELSE /\ result.ok = FALSE
                /\ "parse_error" \in DOMAIN result

\* ------------------------------------------------------------ C5
\* the findings the claim expects of one comparison: one per `in` operator
\* whose own right-hand operand is a bare name, naming that operand
ExpectedMembership(node) ==
    IF node.k # "Compare" THEN <<>>
    ELSE Cat([j \in DOMAIN node.ops |->
                IF node.ops[j] = "In" /\ node.comparators[j].k = "Name"
                THEN << <<node.lineno, node.comparators[j].id>> >>
                ELSE <<>>])

ReportedMembership(detections) ==
    LET hits == SelectSeq(detections, LAMBDA d : d.type = "membership_test")
    IN [j \in DOMAIN hits |-> <<hits[j].lineno, hits[j].container>>]

\* C5: the membership findings of a report are, for every comparison of the
\* tree and every `in` operator in it whose right-hand operand is a bare
\* name, one finding naming that right-hand operand.
C5_MembershipNamesRightOperand ==
    (AnalyzeReturned /\ result.ok) =>
        LET nodes == generic_visit(ast_parse(code_str).tree)
        IN ReportedMembership(result.detections)
             = Cat([j \in DOMAIN nodes |-> ExpectedMembership(nodes[j])])

\* ------------------------------------------------------------ C6
\* C6: when auto_refactor is applied to its own output, it returns, and the
\* second output has the same top-level statements as the first.
C6_Idempotent ==
    (pass = 2 /\ op = "refactor" /\ pc \in {"returned", "raised"}) =>
        /\ pc = "returned"
        /\ code_out.stmts = first_out.stmts

\* ------------------------------------------------------------ C7
IsEmptyListAssign(s) == s.k = "Assign" /\ s.value.k = "List" /\ s.value.elts = <<>>

\* out is inp with some adjacent (empty-list assignment, for-loop) pairs of
\* the top level replaced by one comprehension assignment each, and every
\* other statement identical, descendants included
RECURSIVE OnlyTopLevelPairsReplaced(_, _)
OnlyTopLevelPairsReplaced(inp, out) ==
    IF out = <<>> THEN inp = <<>>
    ELSE /\ inp # <<>>
         /\ \/ /\ Head(out) = Head(inp)
               /\ OnlyTopLevelPairsReplaced(Tail(inp), Tail(out))
            \/ /\ Len(inp) >= 2
               /\ IsEmptyListAssign(inp[1])
               /\ inp[2].k = "For"
               /\ Head(out).k = "Assign"
               /\ Head(out).value.k = "ListComp"
               /\ OnlyTopLevelPairsReplaced(Tail(Tail(inp)), Tail(out))

\* the number of (empty-list assignment, for-loop) neighbours in the blocks
\* nested below a statement
RECURSIVE NestedIdioms(_), IdiomsInBlock(_)
NestedIdioms(s) ==
    IdiomsInBlock(IF "body" \in DOMAIN s THEN s.body ELSE <<>>)
    + IdiomsInBlock(IF "orelse" \in DOMAIN s THEN s.orelse ELSE <<>>)
IdiomsInBlock(ss) ==
    IF ss = <<>> THEN 0
    ELSE (IF Len(ss) >= 2 /\ IsEmptyListAssign(ss[1]) /\ ss[2].k = "For" THEN 1 ELSE 0)
         + NestedIdioms(Head(ss)) + IdiomsInBlock(Tail(ss))

\* the nested idioms of all the statements of a top-level sequence
RECURSIVE NestedIdiomsOf(_)
NestedIdiomsOf(ss) ==
    IF ss = <<>> THEN 0 ELSE NestedIdioms(Head(ss)) + NestedIdiomsOf(Tail(ss))

\* C7: the rewritten text differs from the input only by replaced pairs of
\* adjacent top-level statements; every other top-level statement is
\* unchanged with all its descendants, so every idiom nested in a function,
\* a conditional or a loop is still there.
C7_OnlyTopLevel ==
    RefactorReturned =>
        /\ OnlyTopLevelPairsReplaced(code_str.stmts, code_out.stmts)
        /\ NestedIdiomsOf(code_out.stmts) = NestedIdiomsOf(code_str.stmts)

C7_Witness ==
    /\ RefactorReturned
    /\ pass = 1
    /\ Len(code_out.stmts) < Len(code_str.stmts)
    /\ \E j \in DOMAIN code_out.stmts : NestedIdioms(code_out.stmts[j]) > 0

\* ------------------------------------------------------------ C8
\* the most loop nodes on a path from n down to any node
RECURSIVE LoopsOnPath(_), LoopsBelow(_)
LoopsOnPath(n) ==
    (IF n.k \in {"For", "While"} THEN 1 ELSE 0) + LoopsBelow(iter_child_nodes(n))
LoopsBelow(ns) ==
    IF ns = <<>> THEN 0 ELSE Max2(LoopsOnPath(Head(ns)), LoopsBelow(Tail(ns)))

\* C8: max_loop_nesting of a report is the most loop nodes (for or while) on
\* any path from the root, and the time summary contains "O(n) or O(1)" at
\* depth 0, "O(n)" at depth 1 and "O(n^k)" at depth k >= 2.
C8_LoopNesting ==
    (AnalyzeReturned /\ result.ok) =>
        LET depth == LoopsOnPath(Module(code_str.stmts))
        IN /\ result.time_details.max_loop_nesting = depth
           /\ depth = 0 => Contains(result.time_estimate, <<"O(n) or O(1)">>)
           /\ depth = 1 => Contains(result.time_estimate, <<"O(n)">>)
           /\ depth >= 2 =>
                Contains(result.time_estimate, <<"O(n^">> \o IntStr(depth) \o <<")">>)

C8_Witness ==
    /\ AnalyzeReturned
    /\ result.ok
    /\ code_str.stmts = <<LoopNest(Alternating("While", MaxNest))>>
    /\ result.time_details.max_loop_nesting = MaxNest

\* ------------------------------------------------------------ C9
DetectorOrder ==
    <<"string_concat_in_loop", "list_append", "range_len", "membership_test",
      "sort_in_loop">>

Rank(type) == CHOOSE j \in DOMAIN DetectorOrder : DetectorOrder[j] = type

\* no finding of a later detector precedes a finding of an earlier one
InDetectorBlocks(detections) ==
    \A a, b \in DOMAIN detections :
        a < b => Rank(detections[a].type) <= Rank(detections[b].type)

\* the nodes of a tree, a node before its children and the children in field
\* order, by an explicit stack
RECURSIVE PreOrder(_, _)
PreOrder(stack, done) ==
    IF stack = <<>> THEN done
    ELSE PreOrder(iter_child_nodes(Head(stack)) \o Tail(stack), Append(done, Head(stack)))

\* does a node produce a finding of the given type
Matched(n, type) ==
    CASE type = "string_concat_in_loop" ->
            n.k = "AugAssign" /\ n.op = "Add" /\ n.target.k = "Name"
      [] type = "list_append" ->
            /\ n.k = "Call" /\ n.func.k = "Attribute"
            /\ n.func.attr = "append" /\ n.func.value.k = "Name"
      [] type = "range_len" -> n.k = "For" /\ range_len_visit_For(n) # <<>>
      [] type = "membership_test" ->
            /\ n.k = "Compare" /\ \E j \in DOMAIN n.ops : n.ops[j] = "In"
            /\ n.comparators[1].k = "Name"
      [] type = "sort_in_loop" ->
            /\ n.k = "Call"
            /\ \/ n.func.k = "Name" /\ n.func.id = "sorted"
               \/ n.func.k = "Attribute" /\ n.func.attr = "sort"

\* the name a finding carries ("" for a sort finding)
SubjectOf(d) ==
    CASE d.type = "string_concat_in_loop" -> d.variable
      [] d.type = "list_append" -> d.list_name
      [] d.type = "range_len" -> d.sequence
      [] d.type = "membership_test" -> d.container
      [] OTHER -> ""

\* the name analyze_code reports for a matched node
SubjectAt(n, type) ==
    CASE type = "string_concat_in_loop" -> n.target.id
      [] type = "list_append" -> n.func.value.id
      [] type = "range_len" -> n.iter.args[1].args[1].id
      [] type = "membership_test" -> n.comparators[1].id
      [] OTHER -> ""

\* line and name of the findings of one type, in report order
FindingsOfType(detections, type) ==
    LET hits == SelectSeq(detections, LAMBDA d : d.type = type)
    IN [j \in DOMAIN hits |-> <<hits[j].lineno, SubjectOf(hits[j])>>]

LinesOfType(detections, type) ==
    LET hits == SelectSeq(detections, LAMBDA d : d.type = type)
    IN [j \in DOMAIN hits |-> hits[j].lineno]

\* line and name of the matched nodes in traversal order, a comparison
\* counted once per `in` operator
FindingsInTraversal(tree, type) ==
    LET nodes == PreOrder(<<tree>>, <<>>)
    IN Cat([j \in DOMAIN nodes |->
              IF ~Matched(nodes[j], type) THEN <<>>
              ELSE IF type = "membership_test"
                   THEN [q \in 1..Cardinality({o \in DOMAIN nodes[j].ops :
                                                  nodes[j].ops[o] = "In"}) |->
                           <<nodes[j].lineno, SubjectAt(nodes[j], type)>>]
                   ELSE << <<nodes[j].lineno, SubjectAt(nodes[j], type)>> >>])

NonDecreasing(ns) == \A a, b \in DOMAIN ns : a < b => ns[a] <= ns[b]

\* C9 as stated: the findings come in detector blocks in the fixed order, and
\* within a block in document order of the matched nodes.
C9_DocumentOrder ==
    (AnalyzeReturned /\ result.ok) =>
        /\ InDetectorBlocks(result.detections)
        /\ \A t \in DOMAIN DetectorOrder :
              NonDecreasing(LinesOfType(result.detections, DetectorOrder[t]))

\* C9 amended: the findings come in detector blocks in the fixed order, and
\* within a block in the order the traversal reaches the matched nodes (a
\* node before its children, children in field order).
C9_TraversalOrder ==
    (AnalyzeReturned /\ result.ok) =>
        /\ InDetectorBlocks(result.detections)
        /\ \A t \in DOMAIN DetectorOrder :
              FindingsOfType(result.detections, DetectorOrder[t])
                = FindingsInTraversal(ast_parse(code_str).tree, DetectorOrder[t])

\* a report whose findings are not in line order: a later detector's finding
\* lies on an earlier line than an earlier detector's
C9_Witness ==
    /\ AnalyzeReturned
    /\ result.ok
    /\ \E a, b \in DOMAIN result.detections :
          /\ a < b
          /\ result.detections[a].type # result.detections[b].type
          /\ result.detections[a].lineno > result.detections[b].lineno

\* ------------------------------------------------------------ C10
\* everything the loop held is in the comprehension statement
Carried(fnode, stmt) ==
    /\ stmt.value.generators[1].target = fnode.target
    /\ stmt.value.generators[1].iter = fnode.iter
    /\ <<stmt.value.elt>> = fnode.body[1].value.args
    /\ fnode.orelse = <<>>

\* C10: whenever the scan replaces a pair, the loop's target, its iterable
\* and the whole argument list of the append call are in the comprehension
\* statement, and the loop has no other part (an else clause) that is dropped.
C10_NothingDropped ==
    [][(ScanStep /\ i' = i + 2) =>
          Carried(module.body[i + 2], new_body'[Len(new_body')])]_vars

====
